---- MODULE Spec2Model ----
(***************************************************************************)
(* Model of src/main.py: the order-book feed session                       *)
(* (ws_subscribe_and_print), the quote extractor (best_from_levels,        *)
(* midpoint), the lenient numeric parsers (safe_int, safe_float), the      *)
(* identifier normalizer (normalize_token_ids) and the CSV sink            *)
(* (CsvWriter).                                                            *)
(*                                                                         *)
(* Conventions.                                                            *)
(*  - Python None is the empty tuple << >>, a present value x is <<x>>.    *)
(*  - A Python float is an exact rational [k |-> "fin", n, d] in lowest    *)
(*    terms with d > 0, or NaN, +inf, -inf.  Rounding of binary floating   *)
(*    point is not modelled.                                               *)
(*  - A JSON scalar on the wire is a record [t, n, d]: its JSON type (and, *)
(*    for strings, the shape of its text) and its numeric value n/d.       *)
(*  - The text of a frame is [id, len]: its name and its length in        *)
(*    characters; a slice keeps the name and shortens the length.          *)
(*  - The CSV file is the sequence of its lines, and what the file object  *)
(*    has buffered but not flushed is a sequence of lines of its own.      *)
(*                                                                         *)
(* Specifications.                                                         *)
(*   Spec        the session with transport and write failures             *)
(*   SpecLink    the connection's life, with every kind of frame           *)
(*   SpecRecord  the record built for one object, over many objects        *)
(*   SpecSink    CsvWriter alone, over successive processes                *)
(*   SpecQuote   best_from_levels alone                                    *)
(*   SpecNorm    normalize_token_ids alone                                 *)
(***************************************************************************)
EXTENDS Integers, Sequences, FiniteSets, TLC

None == << >>
Some(x) == << x >>

---------------------------------------------------------------------------
(* Python floats as exact rationals plus the three IEEE specials.          *)

Abs(x) == IF x < 0 THEN -x ELSE x

RECURSIVE GCD(_, _)
GCD(a, b) == IF b = 0 THEN a ELSE GCD(b, a % b)

Rat(n, d) ==
    LET g == GCD(Abs(n), Abs(d))
        s == IF d < 0 THEN -1 ELSE 1
    IN  [k |-> "fin", n |-> s * (n \div g), d |-> s * (d \div g)]

NaN == [k |-> "nan", n |-> 0, d |-> 1]
PInf == [k |-> "inf", n |-> 1, d |-> 1]
NInf == [k |-> "inf", n |-> -1, d |-> 1]

FNeg(a) == IF a.k = "nan" THEN a ELSE [a EXCEPT !.n = -a.n]

FAdd(a, b) ==
    IF a.k = "nan" \/ b.k = "nan" THEN NaN
    ELSE IF a.k = "inf" /\ b.k = "inf" THEN (IF a.n = b.n THEN a ELSE NaN)
    ELSE IF a.k = "inf" THEN a
    ELSE IF b.k = "inf" THEN b
    ELSE Rat(a.n * b.d + b.n * a.d, a.d * b.d)

FSub(a, b) == FAdd(a, FNeg(b))

\* a / c for a positive integer constant c
FDiv(a, c) == IF a.k = "fin" THEN Rat(a.n, a.d * c) ELSE a

\* a < b as IEEE 754 decides it: every comparison with NaN is false
FLt(a, b) ==
    IF a.k = "nan" \/ b.k = "nan" THEN FALSE
    ELSE IF a.k = "inf" /\ b.k = "inf" THEN a.n < b.n
    ELSE IF a.k = "inf" THEN a.n < 0
    ELSE IF b.k = "inf" THEN b.n > 0
    ELSE a.n * b.d < b.n * a.d

FGt(a, b) == FLt(b, a)

IsFinite(a) == a.k = "fin"

---------------------------------------------------------------------------
(* JSON scalars on the wire.                                               *)
(*   t = "null"    field absent or JSON null                               *)
(*   t = "int"     JSON integer n                                          *)
(*   t = "float"   JSON number n/d with a fraction or exponent             *)
(*   t = "intstr"  string holding an integer literal, e.g. "1000"          *)
(*   t = "decstr"  string holding a decimal literal, e.g. "0.40"           *)
(*   t = "nanstr"  the string "nan"                                        *)
(*   t = "infstr"  the string "inf" (n = 1) or "-inf" (n = -1)             *)
(*   t = "str"     any other string, e.g. "abc"                            *)
(*   t = "list"    a JSON array or object where a scalar was expected      *)

W(t, n, d) == [t |-> t, n |-> n, d |-> d]
WNull == W("null", 0, 1)
WStr == W("str", 0, 1)
WNanStr == W("nanstr", 0, 1)
WInfStr == W("infstr", 1, 1)
WNegInfStr == W("infstr", -1, 1)
WList == W("list", 0, 1)
WInt(n) == W("int", n, 1)
WFloat(n, d) == W("float", n, d)
WIntStr(n) == W("intstr", n, 1)
WDecStr(n, d) == W("decstr", n, d)

\* int() of a float truncates toward zero
Trunc(n, d) == IF n >= 0 THEN n \div d ELSE -((-n) \div d)

safe_float(x) ==
    IF x.t \in {"int", "intstr"} THEN Some(Rat(x.n, 1))
    ELSE IF x.t \in {"float", "decstr"} THEN Some(Rat(x.n, x.d))
    ELSE IF x.t = "nanstr" THEN Some(NaN)
    ELSE IF x.t = "infstr" THEN Some(IF x.n > 0 THEN PInf ELSE NInf)
    ELSE None

safe_int(x) ==
    IF x.t \in {"int", "intstr"} THEN Some(x.n)
    ELSE IF x.t = "float" THEN Some(Trunc(x.n, x.d))
    ELSE None

---------------------------------------------------------------------------
(* Quote extractor.                                                        *)
(* A levels value is [isList, items]; an entry is [isDict, price, size].   *)

Level(p, s) == [isDict |-> TRUE, price |-> p, size |-> s]
NonDict == [isDict |-> FALSE, price |-> WNull, size |-> WNull]
Levels(items) == [isList |-> TRUE, items |-> items]
NoLevels == [isList |-> FALSE, items |-> << >>]

\* lines 51-59: the (p, s) pairs of the entries that survive both parses
RECURSIVE ParsedLevels(_)
ParsedLevels(items) ==
    IF items = << >> THEN << >>
    ELSE LET lvl == Head(items)
             p == safe_float(lvl.price)
             s == safe_float(lvl.size)
             rest == ParsedLevels(Tail(items))
         IN  IF ~lvl.isDict THEN rest
             ELSE IF p = None \/ s = None THEN rest
             ELSE << <<p[1], s[1]>> >> \o rest

\* max(parsed, key=t[0]): the first element no later element is greater than
RECURSIVE MaxByPrice(_, _)
MaxByPrice(best, rest) ==
    IF rest = << >> THEN best
    ELSE MaxByPrice(IF FGt(Head(rest)[1], best[1]) THEN Head(rest) ELSE best,
                    Tail(rest))

\* min(parsed, key=t[0])
RECURSIVE MinByPrice(_, _)
MinByPrice(best, rest) ==
    IF rest = << >> THEN best
    ELSE MinByPrice(IF FLt(Head(rest)[1], best[1]) THEN Head(rest) ELSE best,
                    Tail(rest))

best_from_levels(levels, side) ==
    IF ~levels.isList \/ levels.items = << >> THEN None
    ELSE LET parsed == ParsedLevels(levels.items)
         IN  IF parsed = << >> THEN None
             ELSE IF side = "bid"
                  THEN Some(MaxByPrice(Head(parsed), Tail(parsed)))
                  ELSE Some(MinByPrice(Head(parsed), Tail(parsed)))

\* line 65 as "if not bb or not ba" would read it: a price of 0 is absent
midpoint_Falsy(bb, ba) ==
    IF bb = None \/ ba = None \/ bb = Some(Rat(0, 1)) \/ ba = Some(Rat(0, 1))
    THEN None
    ELSE Some(FDiv(FAdd(bb[1], ba[1]), 2))

midpoint(bb, ba) ==
    IF bb = None \/ ba = None THEN None
    ELSE Some(FDiv(FAdd(bb[1], ba[1]), 2))

---------------------------------------------------------------------------
(* Feed messages, frames and ingestion records.                            *)
(* A message is one decoded JSON object.  event_type and type are None     *)
(* (absent) or Some(string).  A frame is what ws.recv() returns: text that *)
(* json.loads rejects (kind "bad"), a JSON scalar (kind "scalar"), one     *)
(* object (kind "dict") or an array (kind "list"); elems holds the decoded *)
(* elements, each an object or not.  Kind "deep" is text json.loads gives  *)
(* up on with an exception that is not JSONDecodeError: arrays nested      *)
(* beyond the recursion limit (RecursionError), or an integer literal of   *)
(* more digits than int() converts (ValueError).                           *)
(* A text is [id, len]: the first len characters of the text named id.     *)

NsPerMs == 1000000
RawCeiling == 20000
InitialDelay == 1
DelayCap == 30

Msg(et, ty, ts, aid, bids, asks) ==
    [event_type |-> et, type |-> ty, timestamp |-> ts, asset_id |-> aid,
     bids |-> bids, asks |-> asks]

Obj(m) == [isDict |-> TRUE, msg |-> Some(m)]
NonObj == [isDict |-> FALSE, msg |-> None]

Text(id, len) == [id |-> id, len |-> len]

\* s[:k]
Slice(t, k) == Text(t.id, IF t.len < k THEN t.len ELSE k)

Frame(kind, id, len, elems) == [kind |-> kind, raw |-> Text(id, len), elems |-> elems]

\* x or y or "unknown" on values that are None or strings: the first truthy one
Truthy(o) == o # None /\ o[1] # ""

EventType(msg) ==
    IF Truthy(msg.event_type) THEN msg.event_type[1]
    ELSE IF Truthy(msg.type) THEN msg.type[1]
    ELSE "unknown"

\* lines 150-160: json.loads and the dict / list normalisation
RECURSIVE DictsOf(_)
DictsOf(elems) ==
    IF elems = << >> THEN << >>
    ELSE IF Head(elems).isDict
         THEN << Head(elems).msg[1] >> \o DictsOf(Tail(elems))
         ELSE DictsOf(Tail(elems))

DecodeFrame(frame) ==
    IF frame.kind = "dict" THEN << frame.elems[1].msg[1] >>
    ELSE IF frame.kind = "list" THEN DictsOf(frame.elems)
    ELSE << >>

\* line 28 dividing by a thousand: microseconds
ns_to_ms_Micro(ns) == Rat(ns, 1000)

\* line 28
ns_to_ms(ns) == Rat(ns, NsPerMs)

\* line 183 as "if exch_ts_ms:" would read it
HasExchTs_Truthy(exch_ts_ms) == exch_ts_ms # None /\ exch_ts_ms # Some(0)

\* line 183: if exch_ts_ms is not None
HasExchTs(exch_ts_ms) == exch_ts_ms # None

\* line 204 without the cap
RawJson_Whole(raw) == raw

\* line 204: raw if len(raw) < 20000 else raw[:20000]
RawJson(raw) == IF raw.len < RawCeiling THEN raw ELSE Slice(raw, RawCeiling)

\* lines 163-205: the row built for one object
BuildRow(msg, raw, recv_ns, proc_end_ns) ==
    LET event_type == EventType(msg)
        exch_ts_ms == safe_int(msg.timestamp)
        bid == IF event_type = "book" THEN best_from_levels(msg.bids, "bid") ELSE None
        ask == IF event_type = "book" THEN best_from_levels(msg.asks, "ask") ELSE None
        bb == IF bid # None THEN Some(bid[1][1]) ELSE None
        ba == IF ask # None THEN Some(ask[1][1]) ELSE None
        mid == IF event_type = "book" THEN midpoint(bb, ba) ELSE None
        has == HasExchTs(exch_ts_ms)
    IN  [asset_id |-> msg.asset_id,
         event_type |-> event_type,
         best_bid |-> bb,
         best_ask |-> ba,
         mid |-> mid,
         exch_ts_raw |-> msg.timestamp,
         recv_ts_ns |-> recv_ns,
         proc_end_ts_ns |-> proc_end_ns,
         proc_latency_ms |-> Some(ns_to_ms(proc_end_ns - recv_ns)),
         net_latency_ms |->
            IF has THEN Some(FSub(ns_to_ms(recv_ns), Rat(exch_ts_ms[1], 1))) ELSE None,
         e2e_latency_ms |->
            IF has THEN Some(FSub(ns_to_ms(proc_end_ns), Rat(exch_ts_ms[1], 1))) ELSE None,
         raw_json |-> RawJson(raw)]

\* line 206 without the filter
ShouldWrite_All(event_type) == TRUE

\* line 206: if event_type == "book"
ShouldWrite(event_type) == event_type = "book"

---------------------------------------------------------------------------
(* The CSV sink.  file is the sequence of lines on disk; buffered is the   *)
(* lines the file object holds for its next flush.  A flush that raises    *)
(* OSError (disk full) leaves its lines buffered, and the next flush that  *)
(* succeeds writes them; a flush writes all of its lines or none.          *)

HeaderLine == [hdr |-> TRUE, row |-> None]
RowLine(r) == [hdr |-> FALSE, row |-> Some(r)]

\* lines 324-326 with the tell() test left out: a header at every open
CsvOpen_Always(lines) == Append(lines, HeaderLine)

\* CsvWriter.__init__: append mode, header only when the file is empty
CsvOpen(lines) == IF lines = << >> THEN << HeaderLine >> ELSE lines

\* CsvWriter.write as a writer that rewrites the file with the newest row
CsvWrite_Truncate(lines, r) == << HeaderLine, RowLine(r) >>

\* CsvWriter.write: one row appended and flushed
CsvWrite(lines, r) == Append(lines, RowLine(r))

\* lines 332-337 without the try: flushing a closed file raises ValueError
CsvClose_Unguarded(closed, lines, buf, flush_ok) ==
    IF closed
    THEN [closed |-> TRUE, lines |-> lines, buf |-> buf, raised |-> TRUE]
    ELSE IF flush_ok
    THEN [closed |-> TRUE, lines |-> lines \o buf, buf |-> << >>, raised |-> FALSE]
    ELSE [closed |-> FALSE, lines |-> lines, buf |-> buf, raised |-> TRUE]

\* CsvWriter.close, on a handle that is closed or not and a flush that
\* succeeds or raises: what becomes of the handle, the file and the buffer,
\* and whether the call raised.  On a closed handle flush raises ValueError;
\* when flush raises, _fh.close() is not reached; except swallows both.
CsvClose(closed, lines, buf, flush_ok) ==
    IF closed
    THEN [closed |-> TRUE, lines |-> lines, buf |-> buf, raised |-> FALSE]
    ELSE IF flush_ok
    THEN [closed |-> TRUE, lines |-> lines \o buf, buf |-> << >>, raised |-> FALSE]
    ELSE [closed |-> FALSE, lines |-> lines, buf |-> buf, raised |-> FALSE]

---------------------------------------------------------------------------
(* Identifier normalizer.                                                  *)
(*                                                                         *)
(* Text is a sequence of characters.  The keyword null of JSON and the     *)
(* word None of Python are each one symbol, "null" and "None".  A Python   *)
(* value is [ty, s, n, l]: ty "str" with text s, ty "int" with value n,    *)
(* ty "list" (list or tuple) with elements l, ty "none", or ty "other"     *)
(* (a dict, a float, ...: nothing the function handles).                   *)

V(ty, s, n, l) == [ty |-> ty, s |-> s, n |-> n, l |-> l]
VNone == V("none", << >>, 0, << >>)
VOther == V("other", << >>, 0, << >>)
VStr(s) == V("str", s, 0, << >>)
VInt(n) == V("int", << >>, n, << >>)
VList(l) == V("list", << >>, 0, l)

DigitChars == << "0", "1", "2", "3", "4", "5", "6", "7", "8", "9" >>
IsDigit(c) == \E k \in 1..10 : DigitChars[k] = c
DigitVal(c) == (CHOOSE k \in 1..10 : DigitChars[k] = c) - 1

\* str.strip()
RECURSIVE LStrip(_)
LStrip(s) == IF s # << >> /\ Head(s) = " " THEN LStrip(Tail(s)) ELSE s

RECURSIVE RStrip(_)
RStrip(s) ==
    IF s # << >> /\ s[Len(s)] = " " THEN RStrip(SubSeq(s, 1, Len(s) - 1)) ELSE s

Strip(s) == RStrip(LStrip(s))

\* s.startswith("[") and s.endswith("]")
Bracketed(s) == s # << >> /\ s[1] = "[" /\ s[Len(s)] = "]"

\* json.loads: a recursive-descent parse of arrays, strings with the \" and
\* \\ escapes, unsigned integers and null.  A result is [ok, v, i]: whether
\* a value was read, the value, and the index after it.
PFail == [ok |-> FALSE, v |-> VNone, i |-> 0]
POk(v, i) == [ok |-> TRUE, v |-> v, i |-> i]

RECURSIVE SkipWs(_, _)
SkipWs(s, i) == IF i <= Len(s) /\ s[i] = " " THEN SkipWs(s, i + 1) ELSE i

RECURSIVE ScanStr(_, _, _)
ScanStr(s, j, acc) ==
    IF j > Len(s) THEN PFail
    ELSE IF s[j] = "\"" THEN POk(VStr(acc), j + 1)
    ELSE IF s[j] = "\\"
         THEN IF j + 1 <= Len(s) /\ s[j + 1] \in {"\"", "\\"}
              THEN ScanStr(s, j + 2, Append(acc, s[j + 1]))
              ELSE PFail
    ELSE ScanStr(s, j + 1, Append(acc, s[j]))

RECURSIVE ScanNum(_, _, _)
ScanNum(s, j, acc) ==
    IF j <= Len(s) /\ IsDigit(s[j])
    THEN ScanNum(s, j + 1, acc * 10 + DigitVal(s[j]))
    ELSE POk(VInt(acc), j)

RECURSIVE ParseValue(_, _)
RECURSIVE ParseElems(_, _, _)

ParseList(s, i) ==
    LET j == SkipWs(s, i + 1)
    IN  IF j <= Len(s) /\ s[j] = "]" THEN POk(VList(<< >>), j + 1)
        ELSE ParseElems(s, j, << >>)

ParseElems(s, j, acc) ==
    LET r == ParseValue(s, j)
        k == SkipWs(s, r.i)
    IN  IF ~r.ok \/ k > Len(s) THEN PFail
        ELSE IF s[k] = "," THEN ParseElems(s, k + 1, Append(acc, r.v))
        ELSE IF s[k] = "]" THEN POk(VList(Append(acc, r.v)), k + 1)
        ELSE PFail

ParseValue(s, i0) ==
    LET i == SkipWs(s, i0)
    IN  IF i > Len(s) THEN PFail
        ELSE IF s[i] = "[" THEN ParseList(s, i)
        ELSE IF s[i] = "\"" THEN ScanStr(s, i + 1, << >>)
        ELSE IF s[i] = "0" THEN POk(VInt(0), i + 1)
        ELSE IF IsDigit(s[i]) THEN ScanNum(s, i, 0)
        ELSE IF s[i] = "null" THEN POk(VNone, i + 1)
        ELSE PFail

\* None when json.loads raises, else Some(value)
json_loads(s) ==
    LET r == ParseValue(s, 1)
    IN  IF r.ok /\ SkipWs(s, r.i) = Len(s) + 1 THEN Some(r.v) ELSE None

\* str() of an int
RECURSIVE IntText(_)
IntText(n) ==
    IF n < 10 THEN << DigitChars[n + 1] >>
    ELSE IntText(n \div 10) \o << DigitChars[(n % 10) + 1] >>

Contains(s, c) == \E k \in 1..Len(s) : s[k] = c

RECURSIVE Escaped(_, _)
Escaped(s, q) ==
    IF s = << >> THEN << >>
    ELSE (IF Head(s) \in {"\\", q} THEN << "\\", Head(s) >> ELSE << Head(s) >>)
         \o Escaped(Tail(s), q)

\* repr() of a str
ReprStr(s) ==
    LET q == IF Contains(s, "'") /\ ~Contains(s, "\"") THEN "\"" ELSE "'"
    IN  << q >> \o Escaped(s, q) \o << q >>

\* str() and, for the elements of a list, repr()
RECURSIVE PyRepr(_)
RECURSIVE JoinRepr(_)
JoinRepr(l) ==
    IF l = << >> THEN << >>
    ELSE IF Len(l) = 1 THEN PyRepr(l[1])
    ELSE PyRepr(l[1]) \o << ",", " " >> \o JoinRepr(Tail(l))

PyRepr(x) ==
    IF x.ty = "str" THEN ReprStr(x.s)
    ELSE IF x.ty = "int" THEN IntText(x.n)
    ELSE IF x.ty = "list" THEN << "[" >> \o JoinRepr(x.l) \o << "]" >>
    ELSE IF x.ty = "none" THEN << "None" >>
    ELSE << "{", "}" >>

PyStr(x) == IF x.ty = "str" THEN x.s ELSE PyRepr(x)

\* [str(x).strip() for x in parsed if x is not None and str(x).strip()]
RECURSIVE StrippedTexts(_)
StrippedTexts(l) ==
    IF l = << >> THEN << >>
    ELSE LET x == Head(l)
             rest == StrippedTexts(Tail(l))
         IN  IF x.ty = "none" \/ Strip(PyStr(x)) = << >> THEN rest
             ELSE << Strip(PyStr(x)) >> \o rest

\* lines 260-280: the loop that fills out
RECURSIVE Collect(_)
Collect(l) ==
    IF l = << >> THEN << >>
    ELSE LET x == Head(l)
             rest == Collect(Tail(l))
             s == Strip(PyStr(x))
             parsed == IF Bracketed(s) THEN json_loads(s) ELSE None
         IN  IF x.ty = "none" THEN rest
             ELSE IF x.ty = "str" /\ parsed # None /\ parsed[1].ty = "list"
                  THEN StrippedTexts(parsed[1].l) \o rest
             ELSE IF s # << >> THEN << s >> \o rest
             ELSE rest

\* lines 282-289: de-dup while keeping order
RECURSIVE Dedup(_, _)
Dedup(out, seen) ==
    IF out = << >> THEN << >>
    ELSE IF Head(out) \in seen THEN Dedup(Tail(out), seen)
    ELSE << Head(out) >> \o Dedup(Tail(out), seen \cup {Head(out)})

\* the result is a list of texts
normalize_token_ids(token_ids) ==
    IF token_ids.ty = "none" THEN << >>
    ELSE IF token_ids.ty = "str"
    THEN LET s == Strip(token_ids.s)
             parsed == IF Bracketed(s) THEN json_loads(s) ELSE None
         IN  IF s = << >> THEN << >>
             ELSE IF parsed # None /\ parsed[1].ty = "list"
                  THEN StrippedTexts(parsed[1].l)
             ELSE << s >>
    ELSE IF token_ids.ty = "list"
    THEN LET l == IF Len(token_ids.l) = 1 /\ token_ids.l[1].ty = "list"
                  THEN token_ids.l[1].l
                  ELSE token_ids.l
         IN  Dedup(Collect(l), {})
    ELSE << >>

\* a list of texts as the Python list of str it is
RECURSIVE AsStrs(_)
AsStrs(texts) ==
    IF texts = << >> THEN << >>
    ELSE << VStr(Head(texts)) >> \o AsStrs(Tail(texts))

AsPyList(texts) == VList(AsStrs(texts))

---------------------------------------------------------------------------
(* The feed session, ws_subscribe_and_print.                               *)
(*                                                                         *)
(* pc is the coroutine's position:                                         *)
(*   "start"    before line 124: no CsvWriter has been constructed         *)
(*   "connect"  awaiting websockets.connect (line 132)                     *)
(*   "send"     connected, awaiting ws.send of the subscription (line 137) *)
(*   "recv"     awaiting ws.recv under wait_for (line 142)                 *)
(*   "process"  inside the for loop over the frame's objects (line 162)    *)
(*   "sleep"    awaiting asyncio.sleep(reconnect_delay) (line 222)         *)
(*   "done"     the coroutine has ended (finally has run)                  *)
(*   "sink"     a CsvWriter used on its own, outside the session           *)

VARIABLES
    pc,                \* position of the coroutine
    reconnect_delay,   \* line 126, seconds
    msg_count,         \* line 127
    msgs,              \* the objects of the current frame not yet processed
    raw,               \* line 142: the text of the current frame
    recv_ns,           \* line 147
    row,               \* the row dict last built (lines 189-205), or None
    file,              \* the lines of polymarket_tennis.csv on disk
    buffered,          \* the lines CsvWriter._fh holds for its next flush
    fh_closed,         \* CsvWriter._fh is closed
    asset_ids,         \* the asset_ids argument
    sent,              \* what ws.send was given on the latest connection
    open_conns,        \* connections to the feed that are open
    timeout_is_oserror,\* the build: asyncio.TimeoutError is an OSError (3.11+)
    fails,             \* history: handled failures since the last connection
    sleep_arg,         \* history: argument of the last asyncio.sleep
    arrivals,          \* history: the book objects received, in arrival order
    write_failed,      \* history: some CsvWriter.write raised
    base,              \* history: lines in the file when the session began
    frames_seen,       \* history: frames received
    idle,              \* history: idle timeouts since the wait for a frame began
    close_calls,       \* history: calls of close() on the current CsvWriter
    close_raised,      \* history: some call of close() raised
    opens,             \* history: CsvWriter objects constructed on the path
    exit_cause,        \* history: why the coroutine ended
    q_levels,          \* best_from_levels called alone: its levels argument,
    q_side,            \*   its side argument
    q_best,            \*   and what it returned, once called
    t_in,              \* normalize_token_ids called alone: its argument,
    t_out,             \*   what it returned, once called,
    t_again            \*   and what it returned when given that result

vars == << pc, reconnect_delay, msg_count, msgs, raw, recv_ns, row, file,
           buffered, fh_closed, asset_ids, sent, open_conns,
           timeout_is_oserror, fails, sleep_arg, arrivals, write_failed, base,
           frames_seen, idle, close_calls, close_raised, opens, exit_cause,
           q_levels, q_side, q_best, t_in, t_out, t_again >>

delay == << reconnect_delay, fails, sleep_arg >>
link == << sent, open_conns >>
handle == << fh_closed, close_calls, close_raised >>
sink == << file, buffered, write_failed >>
work == << msg_count, msgs, raw, recv_ns, row, arrivals, frames_seen >>
probes == << q_levels, q_side, q_best, t_in, t_out, t_again >>
env == << timeout_is_oserror, asset_ids, base, opens, probes >>
session == << pc, exit_cause, idle, delay, link, handle, sink, work,
              timeout_is_oserror, asset_ids, base, opens >>

\* bounds of the exploration: handled failures in a row, frames received,
\* idle timeouts in one wait
MaxFails == 7
MaxFrames == 2
MaxRecordFrames == 1
MaxIdle == 1

Min(a, b) == IF a < b THEN a ELSE b

\* line 223
NextDelay(d) == Min(d * 2, DelayCap)

\* line 135 left out: the delay survives a successful connection
DelayOnConnect_Keep(d) == d

\* line 135
DelayOnConnect(d) == InitialDelay

\* line 136 naming only the first identifier
Subscription_First(ids) == [type |-> "MARKET", assets_ids |-> SubSeq(ids, 1, 1)]

\* line 136
Subscription(ids) == [type |-> "MARKET", assets_ids |-> ids]

\* line 145 as a failure: the timeout handled like a disconnect
AfterIdleTimeout_Reconnect == "sleep"

\* line 145: continue, the loop waits again on the same connection
AfterIdleTimeout == "recv"

\* the connection left open when control leaves the async with block
ConnsAfterExit_Leak(n, inside) == n

\* line 132, async with: leaving the block closes the connection; control
\* that was never inside it (connect raised, or the sleep) closes nothing
ConnsAfterExit(n, inside) == IF inside THEN n - 1 ELSE n

\* What each await can raise.  websockets.connect: a network error
\* (OSError), the opening handshake timing out (asyncio.TimeoutError) or
\* being refused or garbled by the server (InvalidHandshake); send and recv:
\* the connection closing under them.
Raises(at) ==
    IF at = "connect" THEN {"OSError", "TimeoutError", "InvalidHandshake"}
    ELSE {"ConnectionClosedError", "ConnectionClosedOK"}

\* line 217 without OSError
Caught_NoOSError(kind, tmo) == kind \in {"ConnectionClosedError", "ConnectionClosedOK"}

\* line 217: except (ConnectionClosedError, ConnectionClosedOK, OSError)
Caught(kind, tmo) ==
    \/ kind \in {"ConnectionClosedError", "ConnectionClosedOK", "OSError"}
    \/ kind = "TimeoutError" /\ tmo

\* lines 150-152: json.loads raises, and not JSONDecodeError
DecodeRaises(frame) == frame.kind = "deep"

\* a row of an earlier run, already in the file when this run opens it
OldRow ==
    [asset_id |-> "000", event_type |-> "book", best_bid |-> None,
     best_ask |-> None, mid |-> None, exch_ts_raw |-> WNull, recv_ts_ns |-> 0,
     proc_end_ts_ns |-> 0, proc_latency_ms |-> Some(Rat(0, 1)),
     net_latency_ms |-> None, e2e_latency_ms |-> None,
     raw_json |-> Text("old", 3)]

\* neither pure function has been called on its own
ProbesIdle ==
    /\ q_levels = NoLevels
    /\ q_side = "bid"
    /\ q_best = None
    /\ t_in = VNone
    /\ t_out = None
    /\ t_again = None

\* the locals and the histories with nothing received, sent or failed yet
Fresh(tmo, ids) ==
    /\ reconnect_delay = InitialDelay
    /\ msg_count = 0
    /\ msgs = << >>
    /\ raw = Text("", 0)
    /\ recv_ns = 0
    /\ row = None
    /\ buffered = << >>
    /\ fh_closed = FALSE
    /\ asset_ids = ids
    /\ sent = << >>
    /\ open_conns = 0
    /\ timeout_is_oserror = tmo
    /\ fails = 0
    /\ sleep_arg = 0
    /\ arrivals = << >>
    /\ write_failed = FALSE
    /\ frames_seen = 0
    /\ idle = 0
    /\ close_calls = 0
    /\ close_raised = FALSE
    /\ exit_cause = "running"

\* lines 124-127: the state when the while loop is first entered, the file
\* having held prior when CsvWriter opened it
SessionInit(prior, tmo, ids) ==
    /\ pc = "connect"
    /\ file = CsvOpen(prior)
    /\ base = Len(CsvOpen(prior))
    /\ opens = 1
    /\ Fresh(tmo, ids)

\* the identifier lists main resolves and passes on
IdLists == { << "111", "222" >>, << "333" >> }

Init ==
    /\ \E prior \in {<< >>, << HeaderLine, RowLine(OldRow) >>}, tmo \in BOOLEAN :
          SessionInit(prior, tmo, << "111", "222" >>)
    /\ ProbesIdle

\* lines 217-222: control leaves the async with block, if it was inside,
\* and the handler of a caught failure runs up to the sleep
Disconnect ==
    /\ pc' = "sleep"
    /\ sleep_arg' = reconnect_delay
    /\ fails' = fails + 1
    /\ msgs' = << >>
    /\ open_conns' = ConnsAfterExit(open_conns, pc # "connect")
    /\ idle' = 0
    /\ UNCHANGED << reconnect_delay, exit_cause, sent, handle >>

\* lines 225-226: an exception leaves the while loop, through the async
\* with block if it was inside, and finally calls writer.close() with buf
\* buffered; the flush in it succeeds or raises, and cannot raise with
\* nothing buffered
Leave(cause, buf) ==
    /\ pc' = "done"
    /\ exit_cause' = cause
    /\ open_conns' = ConnsAfterExit(open_conns, pc \in {"send", "recv", "process"})
    /\ \E flush_ok \in BOOLEAN :
          /\ buf = << >> => flush_ok
          /\ LET c == CsvClose(fh_closed, file, buf, flush_ok)
             IN  /\ fh_closed' = c.closed
                 /\ file' = c.lines
                 /\ buffered' = c.buf
                 /\ close_raised' = (close_raised \/ c.raised)
    /\ close_calls' = close_calls + 1
    /\ msgs' = << >>
    /\ idle' = 0
    /\ UNCHANGED << delay, sent >>

\* lines 132-135: the connection opens
ConnectOk ==
    /\ pc = "connect"
    /\ pc' = "send"
    /\ reconnect_delay' = DelayOnConnect(reconnect_delay)
    /\ fails' = 0
    /\ open_conns' = open_conns + 1
    /\ sent' = << >>
    /\ UNCHANGED << sleep_arg, exit_cause, idle, handle, sink, work, env >>

\* lines 136-138: the subscription is sent
SendOk ==
    /\ pc = "send"
    /\ pc' = "recv"
    /\ sent' = Append(sent, Subscription(asset_ids))
    /\ UNCHANGED << delay, exit_cause, idle, open_conns, handle, sink, work, env >>

\* an await raises: connect, send or recv
Fail(kind) ==
    /\ pc \in {"connect", "send", "recv"}
    /\ kind \in Raises(pc)
    /\ IF Caught(kind, timeout_is_oserror)
       THEN Disconnect /\ UNCHANGED sink
       ELSE Leave(kind, buffered) /\ UNCHANGED write_failed
    /\ UNCHANGED << msg_count, raw, recv_ns, row, arrivals, frames_seen, env >>

\* lines 222-223: the sleep ends, the delay doubles, the loop connects again
SleepDone ==
    /\ pc = "sleep"
    /\ pc' = "connect"
    /\ reconnect_delay' = NextDelay(reconnect_delay)
    /\ UNCHANGED << fails, sleep_arg, exit_cause, idle, link, handle, sink,
                    work, env >>

\* lines 143-145: ten seconds without a frame; the heartbeat line is
\* printed and the loop waits again
RecvTimeout ==
    /\ pc = "recv"
    /\ pc' = AfterIdleTimeout
    /\ idle' = idle + 1
    /\ UNCHANGED << delay, exit_cause, link, handle, sink, work, env >>

RECURSIVE BooksOf(_)
BooksOf(ms) ==
    IF ms = << >> THEN << >>
    ELSE IF EventType(Head(ms)) = "book"
         THEN << Head(ms) >> \o BooksOf(Tail(ms))
         ELSE BooksOf(Tail(ms))

\* what identifies an object of the feed: its frame, asset and timestamp
MsgKey(id, m) == << id, m.asset_id, m.timestamp >>

RECURSIVE MsgKeys(_, _)
MsgKeys(id, ms) ==
    IF ms = << >> THEN << >>
    ELSE << MsgKey(id, Head(ms)) >> \o MsgKeys(id, Tail(ms))

\* lines 142-160: a frame arrives, is timestamped and decoded; an
\* exception of json.loads that line 151 does not name ends the coroutine
RecvFrame(frame, now) ==
    /\ pc = "recv"
    /\ frames_seen' = frames_seen + 1
    /\ recv_ns' = now
    /\ raw' = frame.raw
    /\ IF DecodeRaises(frame)
       THEN /\ Leave("RecursionError", buffered)
            /\ UNCHANGED << arrivals, write_failed >>
       ELSE /\ msgs' = DecodeFrame(frame)
            /\ arrivals' = arrivals \o MsgKeys(frame.raw.id, BooksOf(DecodeFrame(frame)))
            /\ pc' = IF DecodeFrame(frame) = << >> THEN "recv" ELSE "process"
            /\ idle' = 0
            /\ UNCHANGED << delay, exit_cause, link, handle, sink >>
    /\ UNCHANGED << msg_count, row, env >>

\* lines 209-215 and the loop header: the counter moves, the for loop goes
\* on to the next object or the while loop to the next frame
NextObject ==
    /\ msg_count' = msg_count + 1
    /\ msgs' = Tail(msgs)
    /\ pc' = IF Tail(msgs) = << >> THEN "recv" ELSE "process"
    /\ UNCHANGED << delay, exit_cause, idle, link, handle >>

\* lines 162-215: one pass of the for loop; write_ok is whether
\* CsvWriter.write returns or its flush raises OSError (disk full), which
\* meets the except clause of line 217 with the row left in the buffer
ProcessMsg(proc_end_ns, write_ok) ==
    /\ pc = "process"
    /\ LET msg == Head(msgs)
           r == BuildRow(msg, raw, recv_ns, proc_end_ns)
       IN  /\ row' = Some(r)
           /\ IF ~ShouldWrite(r.event_type)
              THEN /\ write_ok
                   /\ UNCHANGED sink
                   /\ NextObject
              ELSE IF write_ok
              THEN /\ file' = CsvWrite(file \o buffered, r)
                   /\ buffered' = << >>
                   /\ UNCHANGED write_failed
                   /\ NextObject
              ELSE /\ write_failed' = TRUE
                   /\ UNCHANGED msg_count
                   /\ IF Caught("OSError", timeout_is_oserror)
                      THEN /\ buffered' = Append(buffered, RowLine(r))
                           /\ UNCHANGED file
                           /\ Disconnect
                      ELSE Leave("OSError", Append(buffered, RowLine(r)))
    /\ UNCHANGED << raw, recv_ns, arrivals, frames_seen, env >>

\* the task is cancelled while suspended in an await
Cancel ==
    /\ pc \in {"connect", "send", "recv", "sleep"}
    /\ Leave("cancelled", buffered)
    /\ UNCHANGED << write_failed, msg_count, raw, recv_ns, row, arrivals, frames_seen, env >>

---------------------------------------------------------------------------
(* What the feed and the clock may deliver.                                *)

P040 == WDecStr(40, 100)
P042 == WDecStr(42, 100)
S10 == WIntStr(10)

Bids1 == Levels(<< Level(P040, S10) >>)
Asks1 == Levels(<< Level(P042, WInt(5)) >>)

\* a book update named by event_type, one named by type, and objects that
\* are not book updates although they carry levels, a timestamp or "book"
MBook1 == Msg(Some("book"), None, WInt(1000), "111", Bids1, Asks1)
MBook2 == Msg(None, Some("book"), WNull, "222", Bids1, Asks1)
MOther == Msg(Some("price_change"), Some("book"), WInt(1000), "111", Bids1, Asks1)
MUnknown == Msg(Some(""), None, WStr, "222", Bids1, NoLevels)

Frames ==
    { Frame("dict", "b1", 140, << Obj(MBook1) >>),
      Frame("dict", "o", 160, << Obj(MOther) >>),
      Frame("bad", "junk", 4, << >>),
      Frame("scalar", "5", 1, << >>),
      Frame("list", "[u]", 90, << Obj(MUnknown) >>),
      Frame("list", "[b1,5,o,b2]", 450,
            << Obj(MBook1), NonObj, Obj(MOther), Obj(MBook2) >>),
      Frame("list", "[b2,b1]", 290, << Obj(MBook2), Obj(MBook1) >>) }

\* time.time_ns() is the wall clock: the second reading may be the earlier
RecvTimes == { 1005000000 }
ProcDeltas == { 500000 }

FailKinds ==
    { "OSError", "TimeoutError", "InvalidHandshake",
      "ConnectionClosedError", "ConnectionClosedOK" }

Next ==
    \/ ConnectOk
    \/ SendOk
    \/ \E kind \in FailKinds : fails < MaxFails /\ Fail(kind)
    \/ SleepDone
    \/ idle < MaxIdle /\ RecvTimeout
    \/ \E frame \in Frames, now \in RecvTimes :
          frames_seen < MaxFrames /\ RecvFrame(frame, now)
    \/ \E d \in ProcDeltas, write_ok \in BOOLEAN :
          (write_ok \/ fails < MaxFails) /\ ProcessMsg(recv_ns + d, write_ok)
    \/ Cancel

Spec == Init /\ [][Next]_vars

---------------------------------------------------------------------------
(* The record-building path on its own: a connection that stays up, a sink *)
(* that accepts every row, and a feed of single objects with every kind of *)
(* timestamp field and level list.                                         *)

\* timestamp fields: absent, integers, integer and decimal text, a JSON
\* number with a fraction, junk text, "nan", an array
Timestamps ==
    { WNull, WInt(1000), WInt(0), WIntStr(1003), WDecStr(10005, 10),
      WFloat(20007, 20), WStr, WNanStr, WList }

\* level lists: absent, empty, all invalid, a zero price, several levels
\* with invalid entries between them, NaN and infinite prices
LevelLists ==
    { NoLevels, Levels(<< >>),
      Levels(<< NonDict, Level(WStr, S10), Level(P040, WNull) >>),
      Levels(<< Level(WInt(0), S10) >>),
      Levels(<< Level(P040, S10), NonDict, Level(P042, S10) >>),
      Levels(<< Level(P042, S10), Level(WStr, S10), Level(P040, S10) >>),
      Levels(<< Level(WNanStr, S10), Level(P040, S10) >>),
      Levels(<< Level(WInfStr, S10), Level(WNegInfStr, S10) >>) }

RecordMsgs ==
    { Msg(Some("book"), None, ts, "111", Bids1, Asks1) : ts \in Timestamps }
    \cup { Msg(None, Some("book"), WInt(1000), "222", b, Asks1) : b \in LevelLists }
    \cup { Msg(None, Some("book"), WInt(1000), "222", Bids1, a) : a \in LevelLists }
    \cup { Msg(None, Some("book"), WInt(1000), "222", l, l) : l \in LevelLists }
    \cup { MOther, MUnknown }

\* frame lengths below, at and above the ceiling of line 204
RawLens == { 19999, 20000, 20001, 45000 }

RecordFrames ==
    { Frame("dict", "obj", 150, << Obj(m) >>) : m \in RecordMsgs }
    \cup { Frame("dict", "long", n, << Obj(MBook1) >>) : n \in RawLens }

RecordRecvTimes == { 1005000000, 1005500000 }
RecordProcDeltas == { 0, 250000, -500000 }

InitRecord == SessionInit(<< >>, TRUE, << "111", "222" >>) /\ ProbesIdle

NextRecord ==
    \/ ConnectOk
    \/ SendOk
    \/ \E frame \in RecordFrames, now \in RecordRecvTimes :
          frames_seen < MaxRecordFrames /\ RecvFrame(frame, now)
    \/ \E d \in RecordProcDeltas : ProcessMsg(recv_ns + d, TRUE)

SpecRecord == InitRecord /\ [][NextRecord]_vars

---------------------------------------------------------------------------
(* best_from_levels called on its own, on every list of at most MaxLevels  *)
(* entries.                                                                *)

MaxLevels == 3

\* entries: not an object, unparsable price, missing size, three ordinary
\* levels (two at one price), a NaN price, an infinite price, an infinite
\* size
Entries ==
    { NonDict, Level(WStr, S10), Level(P040, WNull),
      Level(P040, S10), Level(P042, S10), Level(P042, WInt(5)),
      Level(WNanStr, S10), Level(WInfStr, S10), Level(P040, WInfStr) }

SeqsUpTo(S, n) == UNION { [1..k -> S] : k \in 0..n }

QuoteInputs == { NoLevels } \cup { Levels(items) : items \in SeqsUpTo(Entries, MaxLevels) }

InitQuote ==
    /\ SessionInit(<< >>, TRUE, << "111", "222" >>)
    /\ q_levels \in QuoteInputs
    /\ q_side \in {"bid", "ask"}
    /\ q_best = None
    /\ t_in = VNone
    /\ t_out = None
    /\ t_again = None

\* the call returns
QuoteCall ==
    /\ q_best = None
    /\ q_best' = Some(best_from_levels(q_levels, q_side))
    /\ UNCHANGED << session, q_levels, q_side, t_in, t_out, t_again >>

NextQuote == QuoteCall

SpecQuote == InitQuote /\ [][NextQuote]_vars

---------------------------------------------------------------------------
(* normalize_token_ids called on its own, and again on what it returned.   *)

MaxIds == 3

TA == << "a" >>
TB == << "b" >>
TPadA == << " ", "a", " " >>
TBlank == << " " >>

\* json.dumps of a list of str: ["a", "b"]
RECURSIVE JoinQuoted(_)
JoinQuoted(texts) ==
    IF texts = << >> THEN << >>
    ELSE << "\"" >> \o Escaped(Head(texts), "\"") \o << "\"" >>
         \o (IF Len(texts) = 1 THEN << >> ELSE << ",", " " >>)
         \o JoinQuoted(Tail(texts))

JsonText(texts) == << "[" >> \o JoinQuoted(texts) \o << "]" >>

\* arrays of identifiers as JSON text, one of them padded, one holding an
\* element that is again an encoded array, one holding null and a number
EncodedTexts ==
    { JsonText(ids) : ids \in SeqsUpTo({TA, TB}, MaxIds) }
    \cup { << " " >> \o JsonText(<< TB, TA >>) \o << " " >>,
           JsonText(<< TPadA, TBlank, TA >>),
           JsonText(<< JsonText(<< TA >>) >>),
           << "[", "null", ",", "1", "2", ",", "\"", "a", "\"", "]" >> }

\* text in brackets that is not JSON
MalformedTexts ==
    { << "[", "a", "]" >>, << "[", "1", ",", "]" >>, << "[", "\"", "a", "]" >> }

PlainTexts == { TA, TB, TPadA, TBlank, << >>, << "1", "2" >> }

ListElems ==
    { VStr(TA), VStr(TB), VStr(TPadA), VStr(TBlank), VNone, VInt(12),
      VStr(JsonText(<< TB, TA, TB >>)), VStr(<< "[", "a", "]" >>) }

NormInputs ==
    { VNone, VOther }
    \cup { VStr(t) : t \in PlainTexts \cup EncodedTexts \cup MalformedTexts }
    \cup { VList(l) : l \in SeqsUpTo(ListElems, MaxIds) }
    \cup { VList(<< VList(l) >>) : l \in SeqsUpTo({VStr(TA), VStr(TB), VInt(12)}, MaxIds) }

InitNorm ==
    /\ SessionInit(<< >>, TRUE, << "111", "222" >>)
    /\ q_levels = NoLevels
    /\ q_side = "bid"
    /\ q_best = None
    /\ t_in \in NormInputs
    /\ t_out = None
    /\ t_again = None

\* the first call returns
NormCall ==
    /\ t_out = None
    /\ t_out' = Some(normalize_token_ids(t_in))
    /\ UNCHANGED << session, q_levels, q_side, q_best, t_in, t_again >>

\* the call on the first call's result returns
NormAgain ==
    /\ t_out # None
    /\ t_again = None
    /\ t_again' = Some(normalize_token_ids(AsPyList(t_out[1])))
    /\ UNCHANGED << session, q_levels, q_side, q_best, t_in, t_out >>

NextNorm == NormCall \/ NormAgain

SpecNorm == InitNorm /\ [][NextNorm]_vars

---------------------------------------------------------------------------
(* The connection's life on its own: a sink that accepts every row, a feed *)
(* that also sends frames json.loads rejects or gives up on, and each of   *)
(* the identifier lists.                                                   *)

MaxLinkFails == 3
MaxLinkFrames == 2

LinkFrames ==
    { Frame("dict", "b1", 140, << Obj(MBook1) >>),
      Frame("bad", "junk", 4, << >>),
      Frame("scalar", "5", 1, << >>),
      Frame("list", "[5,6]", 5, << NonObj, NonObj >>),
      Frame("list", "[5,b2,o]", 310, << NonObj, Obj(MBook2), Obj(MOther) >>),
      Frame("deep", "[[[[", 200000, << >>) }

InitLink ==
    /\ \E ids \in IdLists : SessionInit(<< >>, TRUE, ids)
    /\ ProbesIdle

NextLink ==
    \/ ConnectOk
    \/ SendOk
    \/ \E kind \in FailKinds : fails < MaxLinkFails /\ Fail(kind)
    \/ SleepDone
    \/ idle < MaxIdle /\ RecvTimeout
    \/ \E frame \in LinkFrames, now \in RecvTimes :
          frames_seen < MaxLinkFrames /\ RecvFrame(frame, now)
    \/ \E d \in ProcDeltas : ProcessMsg(recv_ns + d, TRUE)
    \/ Cancel

SpecLink == InitLink /\ [][NextLink]_vars

---------------------------------------------------------------------------
(* CsvWriter on its own: processes that one after the other construct a    *)
(* writer on the same path, write rows, call close() any number of times   *)
(* and end.                                                                *)

MaxOpens == 2
MaxCloses == 2
MaxSinkLines == 2

SinkRows == { OldRow, [OldRow EXCEPT !.asset_id = "111"] }

idle_session == << delay, link, work, exit_cause, idle, timeout_is_oserror,
                   asset_ids, base, probes >>

InitSink ==
    /\ pc = "start"
    /\ file = << >>
    /\ base = 0
    /\ opens = 0
    /\ Fresh(TRUE, << "111", "222" >>)
    /\ ProbesIdle

\* lines 319-326: a process constructs its CsvWriter
SinkOpen ==
    /\ pc = "start"
    /\ pc' = "sink"
    /\ file' = CsvOpen(file)
    /\ buffered' = << >>
    /\ fh_closed' = FALSE
    /\ close_calls' = 0
    /\ opens' = opens + 1
    /\ UNCHANGED << close_raised, write_failed, idle_session >>

\* lines 328-330: write(row) returns, or its flush raises OSError
SinkWrite(r, write_ok) ==
    /\ pc = "sink"
    /\ ~fh_closed
    /\ IF write_ok
       THEN /\ file' = CsvWrite(file \o buffered, r)
            /\ buffered' = << >>
            /\ UNCHANGED write_failed
       ELSE /\ buffered' = Append(buffered, RowLine(r))
            /\ write_failed' = TRUE
            /\ UNCHANGED file
    /\ UNCHANGED << pc, handle, opens, idle_session >>

\* lines 332-337: close() is called; its flush can only raise OSError on an
\* open handle with lines buffered
SinkClose(flush_ok) ==
    /\ pc = "sink"
    /\ (fh_closed \/ buffered = << >>) => flush_ok
    /\ LET c == CsvClose(fh_closed, file, buffered, flush_ok)
       IN  /\ fh_closed' = c.closed
           /\ file' = c.lines
           /\ buffered' = c.buf
           /\ close_raised' = (close_raised \/ c.raised)
    /\ close_calls' = close_calls + 1
    /\ UNCHANGED << pc, write_failed, opens, idle_session >>

\* the process ends: the file object of line 322 is finalised, and what it
\* still buffers reaches the file (flushed) or is lost
SinkExit(flushed) ==
    /\ pc = "sink"
    /\ (fh_closed \/ buffered = << >>) => flushed
    /\ pc' = "start"
    /\ file' = IF ~fh_closed /\ flushed THEN file \o buffered ELSE file
    /\ buffered' = << >>
    /\ UNCHANGED << handle, write_failed, opens, idle_session >>

NextSink ==
    \/ opens < MaxOpens /\ SinkOpen
    \/ \E r \in SinkRows, write_ok \in BOOLEAN :
          Len(file) + Len(buffered) <= MaxSinkLines /\ SinkWrite(r, write_ok)
    \/ \E flush_ok \in BOOLEAN : close_calls < MaxCloses /\ SinkClose(flush_ok)
    \/ \E flushed \in BOOLEAN : SinkExit(flushed)

SpecSink == InitSink /\ [][NextSink]_vars

---------------------------------------------------------------------------
(* Properties.                                                             *)

RECURSIVE Pow2(_)
Pow2(k) == IF k = 0 THEN 1 ELSE 2 * Pow2(k - 1)

\* C1: the sleep taken on the k-th failure in a row since the last
\* successful connection (or since the session began) lasts
\* min(1.0 * 2^(k-1), 30.0) seconds; the first failure after a successful
\* connection sleeps 1.0.
C1_BackoffSchedule ==
    pc = "sleep" =>
        /\ fails >= 1
        /\ sleep_arg = Min(InitialDelay * Pow2(fails - 1), DelayCap)

\* the sixth and later failures in a row sleep the cap
C1_Witness == pc = "sleep" /\ fails >= 6 /\ sleep_arg = DelayCap

\* C2: no transport failure ends the session: the only way the coroutine
\* ends is cancellation.
C2_OnlyCancellationEnds == pc = "done" => exit_cause = "cancelled"

IsPrefix(a, b) == Len(a) <= Len(b) /\ SubSeq(b, 1, Len(a)) = a

\* the lines of b after its first Len(a)
Added(a, b) == SubSeq(b, Len(a) + 1, Len(b))

\* C3: the file changes only by rows of objects whose event type is exactly
\* "book" being appended, and only such rows wait in the buffer; processing
\* an object of any other event type leaves the file and the buffer as
\* they were.
C3_OnlyBookPersisted ==
    [][ /\ IsPrefix(file, file')
        /\ \A i \in 1..Len(Added(file, file')) :
              /\ ~Added(file, file')[i].hdr
              /\ Added(file, file')[i].row[1].event_type = "book"
        /\ \A i \in 1..Len(buffered') : buffered'[i].row[1].event_type = "book"
        /\ (pc = "process" /\ EventType(Head(msgs)) # "book") =>
              file' = file /\ buffered' = buffered
      ]_vars

\* after a reconnect an object that is not a book update, carrying levels
\* and a timestamp, has been processed and nothing has been written
C3_Witness ==
    /\ row # None
    /\ row[1].event_type = "price_change"
    /\ msg_count >= 1
    /\ sleep_arg > 0
    /\ Len(file) = base

\* what identifies in a row the object it was built from
RowKey(line) == << line.row[1].raw_json.id, line.row[1].asset_id, line.row[1].exch_ts_raw >>

RECURSIVE RowKeys(_)
RowKeys(lines) ==
    IF lines = << >> THEN << >>
    ELSE << RowKey(Head(lines)) >> \o RowKeys(Tail(lines))

\* the rows this session appended, and the book objects of the current
\* frame the for loop has not reached yet
SessionRows == RowKeys(SubSeq(file, base + 1, Len(file)))
PendingBooks == MsgKeys(raw.id, BooksOf(msgs))

\* a is b with some elements left out
RECURSIVE IsSubsequence(_, _)
IsSubsequence(a, b) ==
    IF a = << >> THEN TRUE
    ELSE IF b = << >> THEN FALSE
    ELSE IF Head(a) = Head(b) THEN IsSubsequence(Tail(a), Tail(b))
    ELSE IsSubsequence(a, Tail(b))

C5_LatenciesIffParsed ==
    row # None =>
        LET r == row[1]
            parsed == safe_int(r.exch_ts_raw) # None
        IN  /\ (r.net_latency_ms # None) <=> parsed
            /\ (r.e2e_latency_ms # None) <=> parsed
            /\ r.proc_latency_ms # None

\* a book record whose timestamp is junk text: no net and no end-to-end
\* latency, a processing latency
C5_Witness ==
    /\ row # None
    /\ row[1].exch_ts_raw = WStr
    /\ row[1].net_latency_ms = None
    /\ row[1].e2e_latency_ms = None
    /\ row[1].proc_latency_ms # None

\* the float f is ns nanoseconds expressed in milliseconds
EqMs(f, ns) ==
    /\ f.k = "fin"
    /\ NsPerMs % f.d = 0
    /\ f.n * (NsPerMs \div f.d) = ns

\* C6: with parsed timestamp T ms, receive time R and processing end E,
\* net = R - T, e2e = E - T, proc = E - R, so e2e = net + proc, and
\* proc >= 0 whenever E >= R.
C6_LatencyArithmetic ==
    row # None =>
        LET r == row[1]
            T == safe_int(r.exch_ts_raw)
            R == r.recv_ts_ns
            E == r.proc_end_ts_ns
        IN  /\ EqMs(r.proc_latency_ms[1], E - R)
            /\ E >= R => ~FLt(r.proc_latency_ms[1], Rat(0, 1))
            /\ T # None =>
                  /\ EqMs(r.net_latency_ms[1], R - T[1] * NsPerMs)
                  /\ EqMs(r.e2e_latency_ms[1], E - T[1] * NsPerMs)
                  /\ r.e2e_latency_ms[1] =
                        FAdd(r.net_latency_ms[1], r.proc_latency_ms[1])

\* timestamp 1000, received at 1005.5 ms, processed a quarter ms later
C6_Witness ==
    /\ row # None
    /\ row[1].exch_ts_raw = WInt(1000)
    /\ row[1].net_latency_ms = Some(Rat(11, 2))
    /\ row[1].proc_latency_ms = Some(Rat(1, 4))
    /\ row[1].e2e_latency_ms = Some(Rat(23, 4))

\* C8: in every record built, mid is present exactly when best_bid and
\* best_ask both are (a price of 0 is present), and is then their mean.
C8_MidIffBothSides ==
    row # None =>
        LET r == row[1]
            bb == r.best_bid
            ba == r.best_ask
        IN  /\ (r.mid # None) <=> (bb # None /\ ba # None)
            /\ (bb # None /\ ba # None /\ IsFinite(bb[1]) /\ IsFinite(ba[1])) =>
                  /\ IsFinite(r.mid[1])
                  /\ 2 * r.mid[1].n * bb[1].d * ba[1].d
                        = (bb[1].n * ba[1].d + ba[1].n * bb[1].d) * r.mid[1].d

\* best bid 0 and best ask 0.42 give mid 0.21
C8_Witness ==
    /\ row # None
    /\ row[1].best_bid = Some(Rat(0, 1))
    /\ row[1].best_ask = Some(Rat(42, 100))
    /\ row[1].mid = Some(Rat(21, 100))

Range(f) == { f[k] : k \in DOMAIN f }

\* a field that parses, and to a number
ParsesAsNumber(w) == safe_float(w) # None /\ safe_float(w)[1].k # "nan"

ValidEntry(e) == e.isDict /\ ParsesAsNumber(e.price) /\ ParsesAsNumber(e.size)

RECURSIVE ValidOnly(_)
ValidOnly(items) ==
    IF items = << >> THEN << >>
    ELSE IF ValidEntry(Head(items))
         THEN << Head(items) >> \o ValidOnly(Tail(items))
         ELSE ValidOnly(Tail(items))

PairOf(e) == << safe_float(e.price)[1], safe_float(e.size)[1] >>

\* C7: best_from_levels returns None when no entry is a valid level, and
\* otherwise a valid level whose price no valid level exceeds (bid) or
\* undercuts (ask); the entries that are not valid levels have no influence
\* on what is returned.
C7_BestIsExtremalValid ==
    q_best # None =>
        LET res == q_best[1]
            valid == { PairOf(e) : e \in Range(ValidOnly(q_levels.items)) }
        IN  /\ (res = None) <=> (valid = {})
            /\ res # None =>
                  /\ res[1] \in valid
                  /\ \A v \in valid :
                        IF q_side = "bid" THEN ~FGt(v[1], res[1][1])
                                          ELSE ~FLt(v[1], res[1][1])
            /\ res = best_from_levels(Levels(ValidOnly(q_levels.items)), q_side)

\* C9: normalizing the result of a normalization gives that result again.
C9_Idempotent == t_again # None => t_again = t_out

\* the identifiers an input holds, in the order it holds them
Identifiers(x) ==
    IF x.ty = "str"
    THEN LET s == Strip(x.s)
             parsed == json_loads(s)
         IN  IF parsed # None /\ parsed[1].ty = "list" THEN StrippedTexts(parsed[1].l)
             ELSE IF s # << >> THEN << s >>
             ELSE << >>
    ELSE IF x.ty = "list"
    THEN Collect(IF Len(x.l) = 1 /\ x.l[1].ty = "list" THEN x.l[1].l ELSE x.l)
    ELSE << >>

\* the elements of a sequence that no earlier element equals
RECURSIVE FirstOccurrences(_)
FirstOccurrences(ids) ==
    IF ids = << >> THEN << >>
    ELSE LET front == SubSeq(ids, 1, Len(ids) - 1)
             last == ids[Len(ids)]
         IN  IF \E k \in 1..Len(front) : front[k] = last
             THEN FirstOccurrences(front)
             ELSE Append(FirstOccurrences(front), last)

\* C10: normalize_token_ids returns non-empty trimmed strings without
\* duplicates, each identifier of the input at the place of its first
\* occurrence, and the empty list for None, empty or unsupported input.
C10_DistinctInFirstOccurrenceOrder ==
    t_out # None =>
        LET out == t_out[1]
        IN  /\ \A i \in 1..Len(out) : out[i] # << >> /\ Strip(out[i]) = out[i]
            /\ \A i, j \in 1..Len(out) : i # j => out[i] # out[j]
            /\ out = FirstOccurrences(Identifiers(t_in))
            /\ t_in.ty \in {"none", "other"} => out = << >>

\* the header lines among lines
HeaderCount(lines) == Cardinality({ i \in 1..Len(lines) : lines[i].hdr })

\* C11: over any sequence of CsvWriter open / write / close cycles on a path
\* that starts nonexistent or empty, the file has exactly one header line
\* and it is the first line: opening an empty file writes exactly one
\* header, opening a non-empty file writes none.
C11_OneHeaderFirst ==
    /\ [](opens = 0 => file = << >>)
    /\ [](opens > 0 => (file # << >> /\ file[1].hdr /\ HeaderCount(file) = 1))
    /\ [][opens' # opens =>
            /\ file = << >> => (Len(file') = 1 /\ file'[1].hdr)
            /\ file # << >> => file' = file]_vars

\* a second writer has opened the file the first left with a row in it, and
\* has written another row
C11_Witness ==
    /\ opens = 2
    /\ pc = "sink"
    /\ Len(file) = 3
    /\ HeaderCount(file) = 1

\* C12: no call of close() raises, and a call on a handle that is already
\* closed leaves the handle closed and the file as it was.
C12_CloseIdempotent ==
    /\ [](~close_raised)
    /\ [][(fh_closed /\ close_calls' = close_calls + 1) =>
            (fh_closed' /\ file' = file /\ buffered' = buffered)]_vars

\* close() has been called a second time on a writer that wrote a row
C12_Witness ==
    /\ pc = "sink"
    /\ fh_closed
    /\ close_calls >= 2
    /\ Len(file) >= 2

\* C13: once cancellation has arrived, in whichever await, the coroutine
\* has ended there, and the sink has been flushed and closed, by one call
\* of close(): nothing is left buffered and the handle is closed.
C13_CancelClosesSinkOnce ==
    exit_cause = "cancelled" =>
        /\ pc = "done"
        /\ close_calls = 1
        /\ buffered = << >>
        /\ fh_closed

\* C14: the raw_json of every row written is at most 20000 characters long
\* and is a prefix of the frame the row was built from: the whole frame
\* when that is shorter than 20000 characters, its first 20000 otherwise.
C14_RawJsonCapped ==
    [][ \A i \in 1..Len(Added(file, file')) :
            LET rj == Added(file, file')[i].row[1].raw_json
            IN  /\ rj.len <= RawCeiling
                /\ rj.id = raw.id /\ rj.len <= raw.len
                /\ raw.len < RawCeiling => rj = raw
                /\ raw.len >= RawCeiling => rj = Slice(raw, RawCeiling)
      ]_vars

\* the row of a frame of 20001 characters holds its first 20000
C14_Witness ==
    /\ Len(file) = 2
    /\ raw.len = RawCeiling + 1
    /\ file[2].row[1].raw_json = Text(raw.id, RawCeiling)

\* C15: on every connection, the first or a later one, the session has
\* sent exactly one request {"type": "MARKET", "assets_ids": ids} by the
\* time it waits for a frame, ids being the list the session was given,
\* which never changes; no frame is taken between the connection opening
\* and the wait that follows the send.
C15_OneSubscriptionPerConnection ==
    /\ [](pc = "send" => sent = << >>)
    /\ [](pc \in {"recv", "process"} =>
            sent = << [type |-> "MARKET", assets_ids |-> asset_ids] >>)
    /\ [][asset_ids' = asset_ids]_vars
    /\ [][pc = "send" => frames_seen' = frames_seen]_vars
    /\ [][frames_seen' # frames_seen => (pc = "recv" /\ Len(sent) = 1)]_vars

\* waiting for a frame on a connection opened after a failure
C15_Witness ==
    /\ pc = "recv"
    /\ sleep_arg > 0
    /\ fails = 0
    /\ asset_ids = << "111", "222" >>
    /\ sent = << [type |-> "MARKET", assets_ids |-> << "111", "222" >>] >>

\* C16: an idle timeout happens only while waiting for a frame and leaves
\* the session waiting on the same connection: the delay, the count of
\* failures, the message counter, the file and its buffer, the open
\* connection and the requests sent on it are all as they were.
C16_IdleTimeoutChangesNothing ==
    [][ idle' = idle + 1 =>
            /\ pc = "recv" /\ pc' = "recv"
            /\ open_conns = 1
            /\ UNCHANGED << reconnect_delay, fails, sleep_arg, msg_count,
                            file, buffered, fh_closed, open_conns, sent >>
      ]_vars

\* an idle timeout on a connection that has delivered a book row
C16_Witness ==
    /\ idle >= 1
    /\ pc = "recv"
    /\ msg_count >= 1
    /\ Len(file) >= 2

\* C17: a frame that does not decode as JSON, or decodes to a scalar, is
\* skipped: the session waits for the next frame on the same connection
\* with the file, the message counter and the delay as they were; of a
\* list frame the objects, and only they, are processed, in list order.
C17_UndecodableFramesSkipped ==
    [][ \A frame \in LinkFrames :
          (frames_seen' # frames_seen /\ raw' = frame.raw) =>
             /\ frame.kind \in {"bad", "deep", "scalar"} =>
                   /\ pc' = "recv"
                   /\ UNCHANGED << file, buffered, msg_count, reconnect_delay,
                                   fails, open_conns, sent, fh_closed >>
             /\ frame.kind = "list" =>
                   LET objs == { i \in 1..Len(frame.elems) : frame.elems[i].isDict }
                   IN  /\ Len(msgs') = Cardinality(objs)
                       /\ \A k \in 1..Len(msgs') :
                             \E i \in objs :
                                /\ msgs'[k] = frame.elems[i].msg[1]
                                /\ Cardinality({ j \in objs : j <= i }) = k
      ]_vars

\* C18: at most one connection to the feed is open at any moment; none is
\* open during a connect attempt or a backoff sleep, and a connect attempt
\* begins only when a backoff sleep has ended.
C18_AtMostOneConnection ==
    /\ [](open_conns \in {0, 1})
    /\ [](pc \in {"connect", "sleep", "done"} => open_conns = 0)
    /\ [][pc' = "connect" /\ pc # "connect" => pc = "sleep"]_vars

\* asleep after a failure on a connection that had subscribed and received
C18_Witness ==
    /\ pc = "sleep"
    /\ open_conns = 0
    /\ sent # << >>
    /\ frames_seen >= 1

\* an entry whose price and size both parse, and to finite numbers
FiniteEntry(e) ==
    /\ e.isDict
    /\ safe_float(e.price) # None /\ IsFinite(safe_float(e.price)[1])
    /\ safe_float(e.size) # None /\ IsFinite(safe_float(e.size)[1])

RECURSIVE FiniteOnly(_)
FiniteOnly(items) ==
    IF items = << >> THEN << >>
    ELSE IF FiniteEntry(Head(items))
         THEN << Head(items) >> \o FiniteOnly(Tail(items))
         ELSE FiniteOnly(Tail(items))

\* C19: best_from_levels never returns a level whose price or size is NaN
\* or infinite, and returns what it returns for the list with every such
\* level taken out.
C19_OnlyFiniteLevels ==
    q_best # None =>
        LET res == q_best[1]
        IN  /\ res # None => (IsFinite(res[1][1]) /\ IsFinite(res[1][2]))
            /\ res = best_from_levels(Levels(FiniteOnly(q_levels.items)), q_side)

====
